---------------------------- MODULE Spec2Model ----------------------------
(***************************************************************************)
(* Work-item lifecycle, audit log and time tracking of the repository:     *)
(*   - the order module (src/unnamed/part_001): updateOrder and the        *)
(*     activity / notification side effects it triggers;                   *)
(*   - the lead board (src/unnamed/part_000): handleDrop,                  *)
(*     handleAssignmentChange and the local board state;                   *)
(*   - the worker schedule (src/pages/WorkerSchedule.tsx): start / stop of *)
(*     time tracking.                                                      *)
(* Every await of a handler is a step of its own, so that handlers of      *)
(* different invocations interleave exactly where the code yields.         *)
(***************************************************************************)
EXTENDS Integers, Sequences, FiniteSets, TLC

NULL == "null"            \* JavaScript null (and a missing row)
UNDEF == "undefined"      \* a key absent from a Partial<Order>

\* ---------------------------------------------------------------- bounds
MaxCalls == 1             \* updateOrder invocations in one behaviour
NumCallers == 2           \* callers of the order module
MaxLeadOps == 2           \* handler invocations on the lead board
MaxStarts == 2            \* handleStartTracking invocations in one behaviour
MaxStops == 2             \* handleStopTracking invocations in one behaviour
RaceCalls == 2            \* updateOrder invocations in a behaviour of SpecRace
LogCalls == 1             \* updateOrder invocations in a behaviour of SpecLog
MaxLogOps == 2            \* createOrder / createOrderNote / getOrderActivities
                          \* invocations in a behaviour of SpecLog

Callers == 1..NumCallers
Users == {"u1", "u2"}
Teams == {"t1"}
OrderIds == {"o1"}
MissingOrderId == "o9"    \* an id no row of orders has

\* ------------------------------------------------------- the order module
\* OrderStatus (types/database): 'bokad_bekraftad' is the member the order
\* module names; the other two stand for two further members.
OrderStatuses == {"oppen_order", "bokad_bekraftad", "avbokad_kund"}

OrderRows == [status : OrderStatuses,
              assigned_to_user_id : Users \cup {NULL},
              assigned_to_team_id : Teams \cup {NULL}]

\* updates: Partial<Order>, the three fields updateOrder looks at
UpdatesSet == [status : OrderStatuses \cup {UNDEF},
               assigned_to_user_id : Users \cup {NULL, UNDEF},
               assigned_to_team_id : Teams \cup {NULL, UNDEF}]

\* The pages of the application: one is mounted in a behaviour, and only the
\* handlers of that page run.
Pages == {"orders", "leads", "schedule"}

VARIABLES
  page,              \* the page that is mounted
  orders,            \* table orders: id -> row
  order_activities,  \* table order_activities, in insertion order
  notifications,     \* the notifications accepted by the sink, in order
  uo,                \* per caller: the updateOrder invocation in flight
  ncalls,            \* updateOrder invocations started so far
  order_notes,       \* table order_notes, in insertion order
  co,                \* the createOrder invocation in flight
  cn,                \* the createOrderNote invocation in flight
  listed,            \* what the last getOrderActivities returned
  nlogops,           \* createOrder / createOrderNote / getOrderActivities
                     \* invocations started so far
  leads_db,          \* table leads: id -> row
  lead_activities,   \* table lead_activities, in insertion order
  leads,             \* LeadKanban state: the leads as the board shows them
  draggedLead,       \* LeadKanban state
  selectedLead,      \* LeadKanban state
  isUpdatingAssignment, \* LeadKanban state
  user,              \* useAuth().user: the signed-in user's id, or null
  hd,                \* the handleDrop invocation in flight
  ha,                \* the handleAssignmentChange invocation in flight
  nleadops,          \* board handler invocations started so far
  hq,                \* the handleConvertToQuote invocation in flight
  al,                \* the handleAddLead invocation in flight
  lead_notes,        \* table lead_notes: id -> row
  leadNotes,         \* LeadKanban state: the notes of the open lead
  editingNoteId,     \* LeadKanban state
  editingNoteContent, \* LeadKanban state
  confirmDialog,     \* LeadKanban state: the note onConfirm deletes, or null
  hn,                \* the handleUpdateNote invocation in flight
  hx,                \* the confirmDeleteNote invocation in flight
  time_logs,         \* table time_logs, in insertion order (id = position)
  activeTimeLog,     \* WorkerSchedule state: id of the shown log, 0 for null
  st,                \* per click: the handleStartTracking invocation
  sp                 \* per click: the handleStopTracking invocation

orderVars == <<orders, order_activities, notifications, uo, ncalls>>
logVars == <<order_notes, co, cn, listed, nlogops>>
quoteVars == <<hq, al>>
noteVars == <<lead_notes, leadNotes, editingNoteId, editingNoteContent,
              confirmDialog, hn, hx>>
leadVars == <<leads_db, lead_activities, leads, draggedLead, selectedLead,
              isUpdatingAssignment, user, hd, ha, nleadops>>
timeVars == <<time_logs, activeTimeLog, st, sp>>
vars == <<page, orderVars, logVars, leadVars, quoteVars, noteVars, timeVars>>

\* supabase .update(updates): the row with the given keys overwritten
Patch(row, updates) ==
  [f \in DOMAIN row |-> IF updates[f] = UNDEF THEN row[f] ELSE updates[f]]

\* JavaScript truthiness of an optional id / status string
Truthy(v) == v # NULL /\ v # UNDEF

\* data: null of a supabase result: a row none of whose columns is set
NoRow == [status |-> NULL, assigned_to_user_id |-> NULL,
          assigned_to_team_id |-> NULL]

NoUpdates == [status |-> UNDEF, assigned_to_user_id |-> UNDEF,
              assigned_to_team_id |-> UNDEF]

\* An invocation of updateOrder: its arguments, its locals (currentOrder,
\* data), what it returned, and two records of the model: the row its update
\* replaced (before) and the side-effect calls of it that failed (failed).
IdleCall == [pc |-> "idle", n |-> 0, id |-> NULL, updates |-> NoUpdates,
             currentOrder |-> NoRow, before |-> NoRow, data |-> NoRow,
             failed |-> {}, result |-> "none"]

\* updates.status && updates.status !== currentOrder.status
StatusChangedAlways(updates, currentOrder) == Truthy(updates.status)
StatusChanged(updates, currentOrder) ==
  Truthy(updates.status) /\ updates.status # currentOrder.status

\* updates.assigned_to_user_id !== undefined && ... !== currentOrder....
UserChangedAlways(updates, currentOrder) == updates.assigned_to_user_id # UNDEF
UserChanged(updates, currentOrder) ==
  /\ updates.assigned_to_user_id # UNDEF
  /\ updates.assigned_to_user_id # currentOrder.assigned_to_user_id

TeamChanged(updates, currentOrder) ==
  /\ updates.assigned_to_team_id # UNDEF
  /\ updates.assigned_to_team_id # currentOrder.assigned_to_team_id

\* The awaited side-effect calls of updateOrder, in the order of the code.
SideEffects ==
  <<"statusNotify", "statusActivity", "userNotify", "userActivity",
    "teamNotify", "teamActivity">>

\* Whether the code reaches the side-effect call for invocation c.
Applies(step, c) ==
  CASE step = "statusNotify" ->
         /\ StatusChanged(c.updates, c.currentOrder)
         /\ Truthy(c.data.assigned_to_user_id)
    [] step = "statusActivity" -> StatusChanged(c.updates, c.currentOrder)
    [] step = "userNotify" ->
         /\ UserChanged(c.updates, c.currentOrder)
         /\ Truthy(c.updates.assigned_to_user_id)
    [] step = "userActivity" -> UserChanged(c.updates, c.currentOrder)
    [] step = "teamNotify" ->
         /\ TeamChanged(c.updates, c.currentOrder)
         /\ Truthy(c.updates.assigned_to_team_id)
         /\ Truthy(c.data.assigned_to_team_id)
    [] step = "teamActivity" -> TeamChanged(c.updates, c.currentOrder)

\* return { data, error: null }
ReturnData(c) == [c EXCEPT !.pc = "done", !.result = "ok"]

\* return { data: null, error }
ReturnErrorWithData(c) == [c EXCEPT !.pc = "done", !.result = "error"]
ReturnError(c) == [c EXCEPT !.pc = "done", !.result = "error", !.data = NoRow]

\* The next side-effect call after position i of SideEffects, or the return.
Advance(c, i) ==
  LET later == {j \in (i + 1)..Len(SideEffects) : Applies(SideEffects[j], c)}
  IN IF later = {} THEN ReturnData(c)
     ELSE [c EXCEPT !.pc = SideEffects[CHOOSE j \in later :
                                           \A k \in later : j <= k]]

Position(step) == CHOOSE i \in 1..Len(SideEffects) : SideEffects[i] = step

\* if (data && currentOrder) { ... } return { data, error: null }
AfterUpdate(c) == IF c.currentOrder # NoRow THEN Advance(c, 0) ELSE ReturnData(c)


\* createStatusChangeNotification: try { ... } catch (err) { console.error }
\* -- a failed enqueue is swallowed and updateOrder goes on.
StatusNotifyFailedRethrown(c) ==
  ReturnError([c EXCEPT !.failed = @ \cup {"statusNotify"}])
StatusNotifyFailed(c) ==
  Advance([c EXCEPT !.failed = @ \cup {"statusNotify"}],
          Position("statusNotify"))

\* await createNotification(notification), not guarded: a rejection is caught
\* by updateOrder's own catch, which returns { data: null, error }.
AssignNotifyFailed(c) == ReturnError([c EXCEPT !.failed = @ \cup {c.pc}])

\* The row createOrderActivity inserts.  call is the invocation that made the
\* insert (bookkeeping of the model, not a column).
ActivityRow(orderId, userId, activityType, oldValue, newValue, call) ==
  [order_id |-> orderId, user_id |-> userId, activity_type |-> activityType,
   old_value |-> oldValue, new_value |-> newValue, call |-> call]

\* What generateStatusUpdateNotification / generateOrderAssignmentNotification
\* / generateTeamAssignmentNotification hand to createNotification.
NotificationRow(kind, userId, teamId, exclude, orderId, call) ==
  [kind |-> kind, user_id |-> userId, team_id |-> teamId, exclude |-> exclude,
   order_id |-> orderId, call |-> call]

\* The signed-in user on whose behalf updateOrder runs.  updateOrder has no
\* parameter for the acting user.
Actor == "u1"

\* The members of a team: every user of the model is a member of team t1.
TeamMembers(teamId) == IF teamId \in Teams THEN Users ELSE {}

\* The users a notification of the sink is delivered to: the user it is
\* addressed to, or the members of the team less the excluded user.
Recipients(row) ==
  IF row.kind = "team_assignment"
  THEN TeamMembers(row.team_id) \ {row.exclude}
  ELSE {row.user_id}

\* updateOrder(id, updates) is invoked, as one of at most max invocations.
UO_Invoke(p, id, updates, max) ==
  /\ page = "orders"
  /\ uo[p].pc \in {"idle", "done"}
  /\ ncalls < max
  /\ ncalls' = ncalls + 1
  /\ uo' = [uo EXCEPT ![p] = [IdleCall EXCEPT !.pc = "read", !.n = ncalls + 1,
                                              !.id = id, !.updates = updates]]
  /\ UNCHANGED <<orders, order_activities, notifications>>
  /\ UNCHANGED <<page, noteVars, logVars, leadVars, quoteVars, timeVars>>

\* updateOrder(id, updates) is invoked.
UO_Call(p, id, updates) == UO_Invoke(p, id, updates, MaxCalls)

\* updateOrder(id, { status }) is invoked, next to another invocation that
\* may be in flight.
UO_CallStatus(p, id, status) ==
  UO_Invoke(p, id, [NoUpdates EXCEPT !.status = status], RaceCalls)

\* const { data: currentOrder } = await supabase.from('orders').select('*')
\*   .eq('id', id).single();   -- the error of the read is not looked at
\* A rejected promise is caught by updateOrder's catch: return { data: null,
\* error }.
UO_Read(p) ==
  /\ uo[p].pc = "read"
  /\ \E outcome \in {"data", "error", "throws"} :
       uo' = [uo EXCEPT ![p] =
                IF outcome = "throws" THEN ReturnError(uo[p])
                ELSE [uo[p] EXCEPT !.pc = "update",
                               !.currentOrder =
                                  IF outcome = "data" /\ uo[p].id \in DOMAIN orders
                                  THEN orders[uo[p].id] ELSE NoRow]]
  /\ UNCHANGED <<orders, order_activities, notifications, ncalls>>
  /\ UNCHANGED <<page, noteVars, logVars, leadVars, quoteVars, timeVars>>

\* if (error) { return { data: null, error: new Error(error.message) }; }
UpdateFailedNotReturned(c) == ReturnData(c)
UpdateFailed(c) == ReturnError(c)

\* const { data, error } = await supabase.from('orders').update(updates)
\*   .eq('id', id).select(...).single();  if (error) return { data: null, error }
UO_Update(p) ==
  /\ uo[p].pc = "update"
  /\ \E ok \in BOOLEAN :
       IF ok /\ uo[p].id \in DOMAIN orders
       THEN LET row == Patch(orders[uo[p].id], uo[p].updates)
            IN /\ orders' = [orders EXCEPT ![uo[p].id] = row]
               /\ uo' = [uo EXCEPT ![p] =
                           AfterUpdate([uo[p] EXCEPT !.before = orders[uo[p].id],
                                                     !.data = row])]
       ELSE /\ uo' = [uo EXCEPT ![p] = UpdateFailed(uo[p])]
            /\ UNCHANGED orders
  /\ UNCHANGED <<order_activities, notifications, ncalls>>
  /\ UNCHANGED <<page, noteVars, logVars, leadVars, quoteVars, timeVars>>

\* await createStatusChangeNotification(data.assigned_to_user_id, data.id, ...)
UO_StatusNotify(p) ==
  /\ uo[p].pc = "statusNotify"
  /\ \E ok \in BOOLEAN :
       IF ok
       THEN /\ notifications' =
                 Append(notifications,
                        NotificationRow("status_update",
                                        uo[p].data.assigned_to_user_id, NULL,
                                        UNDEF, uo[p].id, uo[p].n))
            /\ uo' = [uo EXCEPT ![p] = Advance(uo[p], Position("statusNotify"))]
       ELSE /\ uo' = [uo EXCEPT ![p] = StatusNotifyFailed(uo[p])]
            /\ UNCHANGED notifications
  /\ UNCHANGED <<orders, order_activities, ncalls>>
  /\ UNCHANGED <<page, noteVars, logVars, leadVars, quoteVars, timeVars>>

\* supabase.from('order_activities').insert([row]): the table with the row
\* added after the rows it has.
UpsertActivity(row) ==
  LET same == {i \in 1..Len(order_activities) :
                 /\ order_activities[i].order_id = row.order_id
                 /\ order_activities[i].activity_type = row.activity_type}
  IN IF same = {} THEN Append(order_activities, row)
     ELSE [order_activities EXCEPT ![CHOOSE i \in same : TRUE] = row]
InsertActivity(row) == Append(order_activities, row)

\* await createOrderActivity(...): it returns { data, error } and never throws;
\* updateOrder does not look at what it returns.
UO_Activity(p, step, activityType, oldValue, newValue) ==
  /\ uo[p].pc = step
  /\ \E ok \in BOOLEAN :
       order_activities' =
          IF ok THEN InsertActivity(ActivityRow(uo[p].id, NULL, activityType,
                                                oldValue, newValue, uo[p].n))
          ELSE order_activities
  /\ uo' = [uo EXCEPT ![p] =
              Advance([uo[p] EXCEPT !.failed =
                         IF order_activities' = order_activities
                         THEN @ \cup {step} ELSE @],
                      Position(step))]
  /\ UNCHANGED <<orders, notifications, ncalls>>
  /\ UNCHANGED <<page, noteVars, logVars, leadVars, quoteVars, timeVars>>

\* createOrderActivity(id, null, 'status_changed', `Status ändrad från ...`,
\*                     currentOrder.status, updates.status)
UO_StatusActivity(p) ==
  /\ uo[p].pc = "statusActivity"
  /\ UO_Activity(p, "statusActivity", "status_changed",
                 uo[p].currentOrder.status, uo[p].updates.status)

\* await createNotification(generateOrderAssignmentNotification(...))
UO_UserNotify(p) ==
  /\ uo[p].pc = "userNotify"
  /\ \E ok \in BOOLEAN :
       IF ok
       THEN /\ notifications' =
                 Append(notifications,
                        NotificationRow("order_assignment",
                                        uo[p].updates.assigned_to_user_id, NULL,
                                        UNDEF, uo[p].id, uo[p].n))
            /\ uo' = [uo EXCEPT ![p] = Advance(uo[p], Position("userNotify"))]
       ELSE /\ uo' = [uo EXCEPT ![p] = AssignNotifyFailed(uo[p])]
            /\ UNCHANGED notifications
  /\ UNCHANGED <<orders, order_activities, ncalls>>
  /\ UNCHANGED <<page, noteVars, logVars, leadVars, quoteVars, timeVars>>

\* createOrderActivity(id, null, 'assigned', 'Order tilldelad' | 'Tilldelning
\* borttagen')
UO_UserActivity(p) ==
  /\ uo[p].pc = "userActivity"
  /\ UO_Activity(p, "userActivity", "assigned", UNDEF, UNDEF)

\* await createNotification(generateTeamAssignmentNotification(
\*   updates.assigned_to_team_id, ..., currentOrder.assigned_to_user_id || undefined))
UO_TeamNotify(p) ==
  /\ uo[p].pc = "teamNotify"
  /\ \E ok \in BOOLEAN :
       IF ok
       THEN /\ notifications' =
                 Append(notifications,
                        NotificationRow("team_assignment", NULL,
                                        uo[p].updates.assigned_to_team_id,
                                        IF Truthy(uo[p].currentOrder.assigned_to_user_id)
                                        THEN uo[p].currentOrder.assigned_to_user_id
                                        ELSE UNDEF,
                                        uo[p].id, uo[p].n))
            /\ uo' = [uo EXCEPT ![p] = Advance(uo[p], Position("teamNotify"))]
       ELSE /\ uo' = [uo EXCEPT ![p] = AssignNotifyFailed(uo[p])]
            /\ UNCHANGED notifications
  /\ UNCHANGED <<orders, order_activities, ncalls>>
  /\ UNCHANGED <<page, noteVars, logVars, leadVars, quoteVars, timeVars>>

\* createOrderActivity(id, null, 'team_assigned', ...)
UO_TeamActivity(p) ==
  /\ uo[p].pc = "teamActivity"
  /\ UO_Activity(p, "teamActivity", "team_assigned", UNDEF, UNDEF)

OrderInit ==
  /\ orders \in [OrderIds -> OrderRows]
  /\ order_activities = <<>>
  /\ notifications = <<>>
  /\ uo = [p \in Callers |-> IdleCall]
  /\ ncalls = 0

\* --------------------------- createOrder, createOrderNote, getOrderActivities
NewOrderId == "o2"        \* the id the store gives the order createOrder inserts

\* order: Omit<Order, 'id' | 'created_at'>, as the caller supplies it
NewOrders == [status : OrderStatuses, assigned_to_user_id : {NULL, "u1"},
              assigned_to_team_id : {NULL}]

\* An invocation of createOrder / createOrderNote: its argument, what it
\* returned, and the tag its activity rows carry in the model (n, negative).
IdleCreate == [pc |-> "idle", n |-> 0, order |-> NoRow, data |-> NoRow,
               result |-> "none"]
NoNote == [order_id |-> NULL, user_id |-> NULL]   \* a null OrderNote
IdleNote == [pc |-> "idle", n |-> 0, order_id |-> NULL, user_id |-> NULL,
             data |-> NoNote, result |-> "none"]

\* What getOrderActivities has returned: { data, error }
NothingListed == [data |-> <<>>, error |-> FALSE]

\* createOrder(order) is invoked.
CreateOrder(order) ==
  /\ page = "orders"
  /\ co.pc \in {"idle", "done"}
  /\ NewOrderId \notin DOMAIN orders
  /\ nlogops < MaxLogOps
  /\ nlogops' = nlogops + 1
  /\ co' = [IdleCreate EXCEPT !.pc = "insert", !.n = 0 - (nlogops + 1),
                              !.order = order]
  /\ UNCHANGED <<order_notes, cn, listed>>
  /\ UNCHANGED <<page, noteVars, orderVars, leadVars, quoteVars, timeVars>>

\* const { data, error } = await supabase.from('orders').insert([order])
\*   .select(...).single();  if (error) return { data: null, error };
\* a rejection is caught: return { data: null, error }.
CO_Insert ==
  /\ co.pc = "insert"
  /\ \E outcome \in {"data", "error", "throws"} :
       IF outcome = "data"
       THEN /\ orders' = [o \in DOMAIN orders \cup {NewOrderId} |->
                            IF o = NewOrderId THEN co.order ELSE orders[o]]
            /\ co' = [co EXCEPT !.pc = "logCreated", !.data = co.order]
       ELSE /\ co' = [co EXCEPT !.pc = "done", !.result = "error"]
            /\ UNCHANGED orders
  /\ UNCHANGED <<order_activities, notifications, uo, ncalls>>
  /\ UNCHANGED <<order_notes, cn, listed, nlogops>>
  /\ UNCHANGED <<page, noteVars, leadVars, quoteVars, timeVars>>

\* if (data) { await createOrderActivity(data.id, null, 'created',
\* 'Order skapad'); }  return { data, error: null };
CO_LogCreated ==
  /\ co.pc = "logCreated"
  /\ \E ok \in BOOLEAN :
       order_activities' =
          IF ok THEN InsertActivity(ActivityRow(NewOrderId, NULL, "created",
                                                UNDEF, UNDEF, co.n))
          ELSE order_activities
  /\ co' = [co EXCEPT !.pc = "done", !.result = "ok"]
  /\ UNCHANGED <<orders, notifications, uo, ncalls>>
  /\ UNCHANGED <<order_notes, cn, listed, nlogops>>
  /\ UNCHANGED <<page, noteVars, leadVars, quoteVars, timeVars>>

\* createOrderNote(note) is invoked.
CreateOrderNote(orderId, userId) ==
  /\ page = "orders"
  /\ cn.pc \in {"idle", "done"}
  /\ nlogops < MaxLogOps
  /\ nlogops' = nlogops + 1
  /\ cn' = [IdleNote EXCEPT !.pc = "insert", !.n = 0 - (nlogops + 1),
                            !.order_id = orderId, !.user_id = userId]
  /\ UNCHANGED <<order_notes, co, listed>>
  /\ UNCHANGED <<page, noteVars, orderVars, leadVars, quoteVars, timeVars>>

\* const { data, error } = await supabase.from('order_notes').insert([note])
\*   .select(...).single();  if (error) return { data: null, error };
CN_Insert ==
  /\ cn.pc = "insert"
  /\ \E outcome \in {"data", "error", "throws"} :
       IF outcome = "data"
       THEN /\ order_notes' = Append(order_notes,
                                     [order_id |-> cn.order_id,
                                      user_id |-> cn.user_id, call |-> cn.n])
            /\ cn' = [cn EXCEPT !.pc = "logNote",
                                !.data = [order_id |-> cn.order_id,
                                          user_id |-> cn.user_id]]
       ELSE /\ cn' = [cn EXCEPT !.pc = "done", !.result = "error"]
            /\ UNCHANGED order_notes
  /\ UNCHANGED <<co, listed, nlogops>>
  /\ UNCHANGED <<page, noteVars, orderVars, leadVars, quoteVars, timeVars>>

\* await createOrderActivity(note.order_id, note.user_id, 'note_added',
\* 'Anteckning tillagd');  return { data, error: null };
CN_LogNote ==
  /\ cn.pc = "logNote"
  /\ \E ok \in BOOLEAN :
       order_activities' =
          IF ok THEN InsertActivity(ActivityRow(cn.order_id, cn.user_id,
                                                "note_added", UNDEF, UNDEF,
                                                cn.n))
          ELSE order_activities
  /\ cn' = [cn EXCEPT !.pc = "done", !.result = "ok"]
  /\ UNCHANGED <<orders, notifications, uo, ncalls>>
  /\ UNCHANGED <<order_notes, co, listed, nlogops>>
  /\ UNCHANGED <<page, noteVars, leadVars, quoteVars, timeVars>>

\* .from('order_activities').select(...).eq('order_id', orderId)
\*   .order('created_at', { ascending: false }): the order's rows, newest first
NewestFirst(orderId) ==
  LET OfOrder(row) == row.order_id = orderId
      rows == SelectSeq(order_activities, OfOrder)
  IN [i \in 1..Len(rows) |-> rows[Len(rows) + 1 - i]]

\* getOrderActivities(orderId): return { data: data || [], error: null }, or
\* { data: null, error }
GetOrderActivities(orderId) ==
  /\ page = "orders"
  /\ nlogops < MaxLogOps
  /\ nlogops' = nlogops + 1
  /\ \E ok \in BOOLEAN :
       listed' = IF ok THEN [data |-> NewestFirst(orderId), error |-> FALSE]
                 ELSE [data |-> <<>>, error |-> TRUE]
  /\ UNCHANGED <<order_notes, co, cn>>
  /\ UNCHANGED <<page, noteVars, orderVars, leadVars, quoteVars, timeVars>>

LogInit ==
  /\ order_notes = <<>>
  /\ co = IdleCreate
  /\ cn = IdleNote
  /\ listed = NothingListed
  /\ nlogops = 0


\* ---------------------------------------------------------- the lead board
LeadIds == {"l1"}

\* columns: the five lead statuses of the board
LeadStatuses == {"new", "contacted", "qualified", "won", "lost"}

\* statusLabels of handleStatusChange
statusLabels ==
  [s \in LeadStatuses |->
     CASE s = "new" -> "Ny"
       [] s = "contacted" -> "Kontaktad"
       [] s = "qualified" -> "Kvalificerad"
       [] s = "won" -> "Vunnen"
       [] s = "lost" -> "Forlorad"]

LeadRows == [status : LeadStatuses, assigned_to_user_id : Users \cup {NULL}]

\* a LeadWithRelations object held in component state; NoLead is null
LeadObject(id, row) ==
  [id |-> id, status |-> row.status,
   assigned_to_user_id |-> row.assigned_to_user_id]
NoLead == [id |-> NULL, status |-> NULL, assigned_to_user_id |-> NULL]

EmptyString == ""         \* the value of the <option> "Ej tilldelad"

\* An invocation of handleDrop / handleAssignmentChange: its arguments, the
\* state it closes over, what it reported (result), and two records of the
\* model: whether its updateLead succeeded (wrote) and the value of the
\* column that write replaced (before).
IdleDrop == [pc |-> "idle", n |-> 0, draggedLead |-> NoLead,
             newStatus |-> NULL, wrote |-> FALSE, before |-> NULL,
             result |-> "none"]
IdleAssign == [pc |-> "idle", n |-> 0, leadId |-> NULL,
               newAssignedUserId |-> NULL, wrote |-> FALSE, before |-> NULL,
               result |-> "none"]

\* The row createLeadActivity inserts.  call is the invocation that made the
\* insert (bookkeeping of the model, not a column).
LeadActivityRow(leadId, userId, activityType, description, call) ==
  [lead_id |-> leadId, user_id |-> userId, activity_type |-> activityType,
   description |-> description, call |-> call]

\* handleDragStart: setDraggedLead(lead)
HandleDragStart(id) ==
  /\ page = "leads"
  /\ draggedLead' = LeadObject(id, leads[id])
  /\ UNCHANGED <<leads_db, lead_activities, leads, selectedLead,
                 isUpdatingAssignment, user, hd, ha, nleadops>>
  /\ UNCHANGED <<page, noteVars, orderVars, logVars, quoteVars, timeVars>>

\* handleLeadClick: setSelectedLead(lead), the detail modal opens
HandleLeadClick(id) ==
  /\ page = "leads"
  /\ selectedLead' = LeadObject(id, leads[id])
  /\ UNCHANGED <<leads_db, lead_activities, leads, draggedLead,
                 isUpdatingAssignment, user, hd, ha, nleadops>>
  /\ UNCHANGED <<page, noteVars, orderVars, logVars, quoteVars, timeVars>>

\* if (!draggedLead || draggedLead.status === newStatus)
DropIsNoOpOrFinal(dragged, newStatus) ==
  dragged = NoLead \/ dragged.status = newStatus
                  \/ dragged.status \in {"won", "lost"}
DropIsNoOp(dragged, newStatus) ==
  dragged = NoLead \/ dragged.status = newStatus

\* handleDrop(e, newStatus), up to its first await.  The handler keeps the
\* draggedLead of the render it was created in.
HandleDrop(newStatus) ==
  /\ page = "leads"
  /\ hd.pc \in {"idle", "done"}
  /\ nleadops < MaxLeadOps
  /\ nleadops' = nleadops + 1
  /\ IF DropIsNoOp(draggedLead, newStatus)
     THEN /\ draggedLead' = NoLead
          /\ hd' = [IdleDrop EXCEPT !.pc = "done", !.n = nleadops + 1,
                                    !.draggedLead = draggedLead,
                                    !.newStatus = newStatus, !.result = "noop"]
     ELSE /\ hd' = [IdleDrop EXCEPT !.pc = "updateLead", !.n = nleadops + 1,
                                    !.draggedLead = draggedLead,
                                    !.newStatus = newStatus]
          /\ UNCHANGED draggedLead
  /\ UNCHANGED <<leads_db, lead_activities, leads, selectedLead,
                 isUpdatingAssignment, user, ha>>
  /\ UNCHANGED <<page, noteVars, orderVars, logVars, quoteVars, timeVars>>

\* What handleDrop does when updateLead reports an error (or throws):
\* showError, then finally { setDraggedLead(null) }.
DropFailedNoFinally(d) == [d EXCEPT !.pc = "failed", !.result = "error"]
DropFailed(d) == [d EXCEPT !.pc = "done", !.result = "error"]

\* const result = await updateLead(draggedLead.id, { status: newStatus });
\* then setLeads(...) and handleStatusChange up to its await.
HD_UpdateLead ==
  /\ hd.pc = "updateLead"
  /\ \E ok \in BOOLEAN :
       IF ok
       THEN /\ leads_db' = [leads_db EXCEPT ![hd.draggedLead.id].status =
                                               hd.newStatus]
            /\ leads' = [leads EXCEPT ![hd.draggedLead.id].status = hd.newStatus]
            /\ IF user = NULL
               THEN /\ hd' = [hd EXCEPT !.pc = "done", !.result = "ok",
                                        !.wrote = TRUE,
                                        !.before = leads_db[hd.draggedLead.id].status]
                    /\ draggedLead' = NoLead
               ELSE /\ hd' = [hd EXCEPT !.pc = "logStatus", !.wrote = TRUE,
                                        !.before = leads_db[hd.draggedLead.id].status]
                    /\ UNCHANGED draggedLead
       ELSE /\ hd' = DropFailed(hd)
            /\ draggedLead' = IF hd'.pc = "done" THEN NoLead ELSE draggedLead
            /\ UNCHANGED <<leads_db, leads>>
  /\ UNCHANGED <<lead_activities, selectedLead, isUpdatingAssignment, user,
                 ha, nleadops>>
  /\ UNCHANGED <<page, noteVars, orderVars, logVars, quoteVars, timeVars>>

\* handleStatusChange: await createLeadActivity(leadId, user.id,
\* 'status_change', description); then handleDrop's finally.
HD_LogStatus ==
  /\ hd.pc = "logStatus"
  /\ \E ok \in BOOLEAN :
       lead_activities' =
         IF ok
         THEN Append(lead_activities,
                     LeadActivityRow(hd.draggedLead.id, user, "status_change",
                                     <<"Status andrad fran",
                                       statusLabels[hd.draggedLead.status],
                                       "till", statusLabels[hd.newStatus]>>,
                                     hd.n))
         ELSE lead_activities
  /\ hd' = [hd EXCEPT !.pc = "done",
                      !.result = IF @ = "none" THEN "ok" ELSE @]
  /\ draggedLead' = NoLead
  /\ UNCHANGED <<leads_db, leads, selectedLead, isUpdatingAssignment, user,
                 ha, nleadops>>
  /\ UNCHANGED <<page, noteVars, orderVars, logVars, quoteVars, timeVars>>

\* <select value={selectedLead.assigned_to_user_id || ''}
\*         onChange={(e) => handleAssignmentChange(selectedLead.id, e.target.value)}
\*         disabled={isUpdatingAssignment}>: the change event fires for an
\* option other than the one shown.
ShownOption(lead) ==
  IF lead.assigned_to_user_id = NULL THEN EmptyString
  ELSE lead.assigned_to_user_id

\* newAssignedUserId || null
OrNull(v) == IF v = EmptyString THEN NULL ELSE v

\* handleAssignmentChange(leadId, newAssignedUserId), up to its first await
HandleAssignmentChange(newAssignedUserId) ==
  /\ page = "leads"
  /\ selectedLead # NoLead
  /\ ~isUpdatingAssignment
  /\ newAssignedUserId # ShownOption(selectedLead)
  /\ ha.pc \in {"idle", "done"}
  /\ nleadops < MaxLeadOps
  /\ nleadops' = nleadops + 1
  /\ isUpdatingAssignment' = TRUE
  /\ ha' = [IdleAssign EXCEPT !.pc = "updateLead", !.n = nleadops + 1,
                              !.leadId = selectedLead.id,
                              !.newAssignedUserId = newAssignedUserId]
  /\ UNCHANGED <<leads_db, lead_activities, leads, draggedLead, selectedLead,
                 user, hd>>
  /\ UNCHANGED <<page, noteVars, orderVars, logVars, quoteVars, timeVars>>

\* What handleAssignmentChange does when updateLead reports an error:
\* showError, return, finally { setIsUpdatingAssignment(false) }.
AssignFailed(a) == [a EXCEPT !.pc = "done", !.result = "error"]

\* const result = await updateLead(leadId, { assigned_to_user_id:
\* newAssignedUserId || null }); then setLeads, setSelectedLead.
HA_UpdateLead ==
  /\ ha.pc = "updateLead"
  /\ \E ok \in BOOLEAN :
       IF ok
       THEN /\ leads_db' = [leads_db EXCEPT ![ha.leadId].assigned_to_user_id =
                                               OrNull(ha.newAssignedUserId)]
            /\ leads' = [leads EXCEPT ![ha.leadId].assigned_to_user_id =
                                         OrNull(ha.newAssignedUserId)]
            /\ selectedLead' =
                 IF selectedLead # NoLead /\ selectedLead.id = ha.leadId
                 THEN [selectedLead EXCEPT !.assigned_to_user_id =
                                              OrNull(ha.newAssignedUserId)]
                 ELSE selectedLead
            /\ IF user = NULL
               THEN /\ ha' = [ha EXCEPT !.pc = "done", !.result = "ok",
                                        !.wrote = TRUE,
                                        !.before = leads_db[ha.leadId].assigned_to_user_id]
                    /\ isUpdatingAssignment' = FALSE
               ELSE /\ ha' = [ha EXCEPT !.pc = "logAssign", !.wrote = TRUE,
                                        !.before = leads_db[ha.leadId].assigned_to_user_id]
                    /\ UNCHANGED isUpdatingAssignment
       ELSE /\ ha' = AssignFailed(ha)
            /\ isUpdatingAssignment' = (ha'.pc # "done")
            /\ UNCHANGED <<leads_db, leads, selectedLead>>
  /\ UNCHANGED <<lead_activities, draggedLead, user, hd, nleadops>>
  /\ UNCHANGED <<page, noteVars, orderVars, logVars, quoteVars, timeVars>>

\* await createLeadActivity(leadId, user.id, 'assignment_change', description);
\* success(...); finally { setIsUpdatingAssignment(false) }.  What
\* createLeadActivity returns is not looked at; if it rejects, the handler's
\* catch shows 'Tilldelningsfel'.
HA_LogAssign ==
  /\ ha.pc = "logAssign"
  /\ \E outcome \in {"data", "error", "throws"} :
       /\ lead_activities' =
            IF outcome = "data"
            THEN Append(lead_activities,
                        LeadActivityRow(ha.leadId, user, "assignment_change",
                                        IF ha.newAssignedUserId # EmptyString
                                        THEN <<"Lead tilldelad till",
                                               ha.newAssignedUserId>>
                                        ELSE <<"Lead-tilldelning borttagen">>,
                                        ha.n))
            ELSE lead_activities
       /\ ha' = [ha EXCEPT !.pc = "done",
                           !.result = IF outcome = "throws" THEN "error"
                                      ELSE "ok"]
  /\ isUpdatingAssignment' = FALSE
  /\ UNCHANGED <<leads_db, leads, draggedLead, selectedLead, user, hd,
                 nleadops>>
  /\ UNCHANGED <<page, noteVars, orderVars, logVars, quoteVars, timeVars>>

\* An invocation of handleConvertToQuote: the selectedLead it closes over,
\* what it reported (result), and two records of the model: whether its
\* updateLead succeeded (wrote) and the status that write replaced (before).
IdleQuote == [pc |-> "idle", n |-> 0, selectedLead |-> NoLead,
              wrote |-> FALSE, before |-> NULL, result |-> "none"]

\* handleConvertToQuote, up to its first await:
\* if (!selectedLead || !user) return;
HandleConvertToQuote ==
  /\ page = "leads"
  /\ hq.pc \in {"idle", "done"}
  /\ nleadops < MaxLeadOps
  /\ nleadops' = nleadops + 1
  /\ hq' = IF selectedLead = NoLead \/ user = NULL
            THEN [IdleQuote EXCEPT !.pc = "done", !.n = nleadops + 1,
                                   !.selectedLead = selectedLead,
                                   !.result = "noop"]
            ELSE [IdleQuote EXCEPT !.pc = "logConverted", !.n = nleadops + 1,
                                   !.selectedLead = selectedLead]
  /\ UNCHANGED <<leads_db, lead_activities, leads, draggedLead, selectedLead,
                 isUpdatingAssignment, user, hd, ha>>
  /\ UNCHANGED al
  /\ UNCHANGED <<page, noteVars, orderVars, logVars, timeVars>>

\* catch (err) { showError('Konverteringsfel', ...) }
QuoteFailed(q) == [q EXCEPT !.pc = "done", !.result = "error"]

\* await createLeadActivity(selectedLead.id, user.id, 'converted_to_quote',
\* 'Lead konverterad till offert'); the value it resolves to is not looked at.
\* Then: if (selectedLead.status !== 'qualified') ... else success(...).
HQ_LogConverted ==
  /\ hq.pc = "logConverted"
  /\ \E outcome \in {"data", "error", "throws"} :
       /\ lead_activities' =
            IF outcome = "data"
            THEN Append(lead_activities,
                        LeadActivityRow(hq.selectedLead.id, user,
                                        "converted_to_quote",
                                        <<"Lead konverterad till offert">>,
                                        hq.n))
            ELSE lead_activities
       /\ hq' = IF outcome = "throws" THEN QuoteFailed(hq)
                ELSE IF hq.selectedLead.status # "qualified"
                     THEN [hq EXCEPT !.pc = "updateLead"]
                     ELSE [hq EXCEPT !.pc = "done", !.result = "ok"]
  /\ UNCHANGED <<leads_db, leads, draggedLead, selectedLead,
                 isUpdatingAssignment, user, hd, ha, nleadops>>
  /\ UNCHANGED al
  /\ UNCHANGED <<page, noteVars, orderVars, logVars, timeVars>>

\* await updateLead(selectedLead.id, { status: 'qualified' }); the result is
\* not looked at: unless the call throws, setLeads and setSelectedLead put
\* 'qualified' into the component state and success(...) is shown.
HQ_UpdateLead ==
  /\ hq.pc = "updateLead"
  /\ \E outcome \in {"data", "error", "throws"} :
       /\ IF outcome = "data"
          THEN /\ leads_db' = [leads_db EXCEPT ![hq.selectedLead.id].status =
                                                  "qualified"]
               /\ hq' = [hq EXCEPT !.pc = "done", !.result = "ok",
                                   !.wrote = TRUE,
                                   !.before = leads_db[hq.selectedLead.id].status]
          ELSE /\ hq' = IF outcome = "throws" THEN QuoteFailed(hq)
                        ELSE [hq EXCEPT !.pc = "done", !.result = "ok"]
               /\ UNCHANGED leads_db
       /\ IF outcome = "throws"
          THEN UNCHANGED <<leads, selectedLead>>
          ELSE /\ leads' = [leads EXCEPT ![hq.selectedLead.id].status =
                                            "qualified"]
               /\ selectedLead' = IF selectedLead = NoLead THEN NoLead
                                  ELSE [selectedLead EXCEPT !.status = "qualified"]
  /\ UNCHANGED <<lead_activities, draggedLead, isUpdatingAssignment, user,
                 hd, ha, nleadops>>
  /\ UNCHANGED al
  /\ UNCHANGED <<page, noteVars, orderVars, logVars, timeVars>>

\* The lead handleAddLead creates gets an id from the store.
NewLeadId == "l2"

\* An invocation of handleAddLead: the assigned user chosen in the form and
\* what the handler reported.
IdleAddLead == [pc |-> "idle", assigned_to_user_id |-> EmptyString,
                result |-> "none"]

\* handleAddLead, up to its first await: a customer name that matches no
\* known customer makes it create the customer first.
HandleAddLead(assigned, newCustomer) ==
  /\ page = "leads"
  /\ al.pc \in {"idle", "done"}
  /\ NewLeadId \notin DOMAIN leads_db
  /\ nleadops < MaxLeadOps
  /\ nleadops' = nleadops + 1
  /\ al' = [IdleAddLead EXCEPT !.pc = IF newCustomer THEN "createCustomer"
                                      ELSE "createLead",
                               !.assigned_to_user_id = assigned]
  /\ UNCHANGED hq
  /\ UNCHANGED <<leads_db, lead_activities, leads, draggedLead, selectedLead,
                 isUpdatingAssignment, user, hd, ha>>
  /\ UNCHANGED <<page, noteVars, orderVars, logVars, timeVars>>

\* const customerResult = await createCustomer({...});
\* if (customerResult.error) { showError(...); return; }
AL_CreateCustomer ==
  /\ al.pc = "createCustomer"
  /\ \E ok \in BOOLEAN :
       al' = IF ok THEN [al EXCEPT !.pc = "createLead"]
             ELSE [al EXCEPT !.pc = "done", !.result = "error"]
  /\ UNCHANGED hq
  /\ UNCHANGED <<leads_db, lead_activities, leads, draggedLead, selectedLead,
                 isUpdatingAssignment, user, hd, ha, nleadops>>
  /\ UNCHANGED <<page, noteVars, orderVars, logVars, timeVars>>

\* const leadData = { ..., assigned_to_user_id: addLeadForm.assigned_to_user_id
\*   || null, status: 'new' as LeadStatus, ... }
leadDataOfForm(form) == [status |-> form.assigned_to_user_id,
                         assigned_to_user_id |-> OrNull(form.assigned_to_user_id)]
leadData(form) == [status |-> "new",
                   assigned_to_user_id |-> OrNull(form.assigned_to_user_id)]

\* const result = await createLead(leadData); error or rejection: showError;
\* data: setLeads(prev => [result.data!, ...prev])
AL_CreateLead ==
  /\ al.pc = "createLead"
  /\ \E ok \in BOOLEAN :
       IF ok
       THEN /\ leads_db' = [l \in DOMAIN leads_db \cup {NewLeadId} |->
                              IF l = NewLeadId THEN leadData(al) ELSE leads_db[l]]
            /\ leads' = [l \in DOMAIN leads \cup {NewLeadId} |->
                           IF l = NewLeadId THEN leadData(al) ELSE leads[l]]
            /\ al' = [al EXCEPT !.pc = "done", !.result = "ok"]
       ELSE /\ al' = [al EXCEPT !.pc = "done", !.result = "error"]
            /\ UNCHANGED <<leads_db, leads>>
  /\ UNCHANGED hq
  /\ UNCHANGED <<lead_activities, draggedLead, selectedLead,
                 isUpdatingAssignment, user, hd, ha, nleadops>>
  /\ UNCHANGED <<page, noteVars, orderVars, logVars, timeVars>>

LeadInit ==
  /\ leads_db \in [LeadIds -> LeadRows]
  /\ leads = leads_db
  /\ lead_activities = <<>>
  /\ draggedLead = NoLead
  /\ selectedLead = NoLead
  /\ isUpdatingAssignment = FALSE
  /\ user \in Users \cup {NULL}
  /\ hd = IdleDrop
  /\ ha = IdleAssign
  /\ hq = IdleQuote
  /\ al = IdleAddLead
  /\ nleadops = 0

\* ------------------------------------------------------ the worker schedule
Worker == "u1"            \* user!.id of the signed-in worker
\* event.related_order_id of the orders on the worker's schedule
ScheduleOrderIds == {"o1", "o2"}
Starts == 1..MaxStarts
Stops == 1..MaxStops

NoTime == <<>>            \* a null end_time; <<q>> is the time of stop q

IdleStart == [pc |-> "idle", orderId |-> NULL, result |-> "none", log |-> 0]
IdleStop == [pc |-> "idle", id |-> 0, result |-> "none"]

\* The ids of the worker's time logs with a null end timestamp.
ActiveLogs(userId) ==
  {i \in 1..Len(time_logs) :
     time_logs[i].user_id = userId /\ time_logs[i].end_time = NoTime}

\* loadScheduleData: setActiveTimeLog((await getActiveTimeLog(user.id)).data)
LoadScheduleData ==
  /\ page = "schedule"
  /\ \E ok \in BOOLEAN :
       IF ok
       THEN \/ ActiveLogs(Worker) = {} /\ activeTimeLog' = 0
            \/ \E i \in ActiveLogs(Worker) : activeTimeLog' = i
       ELSE UNCHANGED activeTimeLog
  /\ UNCHANGED <<time_logs, st, sp>>
  /\ UNCHANGED <<page, noteVars, orderVars, logVars, leadVars, quoteVars>>

\* The "Starta tidtagning" button is rendered while !activeTimeLog; a click
\* runs handleStartTracking(orderId, workType) up to startTimeTracking.
HandleStartTracking(p, orderId) ==
  /\ page = "schedule"
  /\ st[p].pc = "idle"
  /\ activeTimeLog = 0
  /\ st' = [st EXCEPT ![p] = [IdleStart EXCEPT !.pc = "getActive",
                                               !.orderId = orderId]]
  /\ UNCHANGED <<time_logs, activeTimeLog, sp>>
  /\ UNCHANGED <<page, noteVars, orderVars, logVars, leadVars, quoteVars>>

\* startTimeTracking, first call: getActive(workerId); a session that is
\* active makes it fail with SessionAlreadyActive.
ST_GetActiveUnchecked(p) ==
  /\ st[p].pc = "getActive"
  /\ st' = [st EXCEPT ![p].pc = "insert"]
  /\ UNCHANGED <<time_logs, activeTimeLog, sp>>
  /\ UNCHANGED <<page, noteVars, orderVars, logVars, leadVars, quoteVars>>
ST_GetActive(p) ==
  /\ st[p].pc = "getActive"
  /\ \E ok \in BOOLEAN :
       st' = [st EXCEPT ![p] =
                IF ok /\ ActiveLogs(Worker) = {}
                THEN [@ EXCEPT !.pc = "insert"]
                ELSE [@ EXCEPT !.pc = "done",
                               !.result = IF ok THEN "SessionAlreadyActive"
                                          ELSE "StoreFailure"]]
  /\ UNCHANGED <<time_logs, activeTimeLog, sp>>
  /\ UNCHANGED <<page, noteVars, orderVars, logVars, leadVars, quoteVars>>

\* startTimeTracking, second call: the insert of the new session; then
\* handleStartTracking: setActiveTimeLog(result.data).
ST_Insert(p) ==
  /\ st[p].pc = "insert"
  /\ \E ok \in BOOLEAN :
       IF ok
       THEN /\ time_logs' = Append(time_logs,
                                   [user_id |-> Worker,
                                    order_id |-> st[p].orderId,
                                    end_time |-> NoTime])
            /\ activeTimeLog' = Len(time_logs) + 1
            /\ st' = [st EXCEPT ![p].pc = "done", ![p].result = "ok",
                                ![p].log = Len(time_logs) + 1]
       ELSE /\ st' = [st EXCEPT ![p].pc = "done", ![p].result = "StoreFailure"]
            /\ UNCHANGED <<time_logs, activeTimeLog>>
  /\ UNCHANGED sp
  /\ UNCHANGED <<page, noteVars, orderVars, logVars, leadVars, quoteVars>>

\* A "Stoppa" button is rendered while activeTimeLog is set; a click runs
\* handleStopTracking: if (!activeTimeLog) return; ... up to stopTimeTracking.
HandleStopTracking(q) ==
  /\ page = "schedule"
  /\ sp[q].pc = "idle"
  /\ activeTimeLog # 0
  /\ sp' = [sp EXCEPT ![q] = [IdleStop EXCEPT !.pc = "stop",
                                              !.id = activeTimeLog]]
  /\ UNCHANGED <<time_logs, activeTimeLog, st>>
  /\ UNCHANGED <<page, noteVars, orderVars, logVars, leadVars, quoteVars>>

\* stopTimeTracking(id): the session must have a null end timestamp, which is
\* then set (to the stamp of this stop); then setActiveTimeLog(null).
SP_StopUnconditional(q) ==
  /\ sp[q].pc = "stop"
  /\ time_logs' = [time_logs EXCEPT ![sp[q].id].end_time = <<q>>]
  /\ activeTimeLog' = 0
  /\ sp' = [sp EXCEPT ![q].pc = "done", ![q].result = "ok"]
  /\ UNCHANGED st
  /\ UNCHANGED <<page, noteVars, orderVars, logVars, leadVars, quoteVars>>
SP_Stop(q) ==
  /\ sp[q].pc = "stop"
  /\ \E ok \in BOOLEAN :
       IF ok /\ time_logs[sp[q].id].end_time = NoTime
       THEN /\ time_logs' = [time_logs EXCEPT ![sp[q].id].end_time = <<q>>]
            /\ activeTimeLog' = 0
            /\ sp' = [sp EXCEPT ![q].pc = "done", ![q].result = "ok"]
       ELSE /\ sp' = [sp EXCEPT ![q].pc = "done",
                                ![q].result = IF ok THEN "AlreadyStopped"
                                              ELSE "StoreFailure"]
            /\ UNCHANGED <<time_logs, activeTimeLog>>
  /\ UNCHANGED st
  /\ UNCHANGED <<page, noteVars, orderVars, logVars, leadVars, quoteVars>>

\* The page is mounted with no session of the worker in the store, or with
\* one the worker started earlier and has not stopped; activeTimeLog is null
\* until loadScheduleData has answered.
TimeInit ==
  /\ time_logs \in {<<>>, <<[user_id |-> Worker, order_id |-> "o1",
                             end_time |-> NoTime]>>}
  /\ activeTimeLog = 0
  /\ st = [p \in Starts |-> IdleStart]
  /\ sp = [q \in Stops |-> IdleStop]

\* ------------------------------------------------------- the specification
\* ------------------------------------------- the notes of the lead modal
NoteIds == {"n1", "n2", "n3"}
Blank == " "               \* a content that trim() empties
Contents == {Blank, "a", "b"}
NoteRows == [user_id : Users \cup {NULL}, content : Contents \ {Blank}]

\* editingNoteContent.trim()
Trim(content) == IF content = Blank THEN EmptyString ELSE content

\* {note.user_id === user?.id && ( <edit button/> <delete button/> )}: with no
\* user signed in user?.id is undefined, which no user_id is identical to.
OwnNoteAlways(note) == note.user_id \in Users \cup {NULL}
OwnNote(note) == user # NULL /\ note.user_id = user

IdleNoteUpdate == [pc |-> "idle", noteId |-> NULL, content |-> EmptyString,
                   result |-> "none"]
IdleNoteDelete == [pc |-> "idle", noteId |-> NULL, result |-> "none"]

\* The edit button of a shown note:
\* onClick={() => { setEditingNoteId(note.id); setEditingNoteContent(note.content) }}
ClickEditNote(noteId) ==
  /\ page = "leads"
  /\ noteId \in DOMAIN leadNotes
  /\ OwnNote(leadNotes[noteId])
  /\ editingNoteId' = noteId
  /\ editingNoteContent' = leadNotes[noteId].content
  /\ UNCHANGED <<lead_notes, leadNotes, confirmDialog, hn, hx>>
  /\ UNCHANGED <<page, orderVars, logVars, leadVars, quoteVars, timeVars>>

\* {editingNoteId === note.id ? <textarea value={editingNoteContent}
\*    onChange={(e) => setEditingNoteContent(e.target.value)} /> ...
EditingShown == editingNoteId # NULL /\ editingNoteId \in DOMAIN leadNotes

TypeNoteContent(content) ==
  /\ page = "leads"
  /\ EditingShown
  /\ editingNoteContent' = content
  /\ UNCHANGED <<lead_notes, leadNotes, editingNoteId, confirmDialog, hn, hx>>
  /\ UNCHANGED <<page, orderVars, logVars, leadVars, quoteVars, timeVars>>

\* "Avbryt": setEditingNoteId(null); setEditingNoteContent('')
CancelEditNote ==
  /\ page = "leads"
  /\ EditingShown
  /\ editingNoteId' = NULL
  /\ editingNoteContent' = EmptyString
  /\ UNCHANGED <<lead_notes, leadNotes, confirmDialog, hn, hx>>
  /\ UNCHANGED <<page, orderVars, logVars, leadVars, quoteVars, timeVars>>

\* "Spara": handleUpdateNote(note.id), up to its await:
\* if (!editingNoteContent.trim()) return;
HandleUpdateNote ==
  /\ page = "leads"
  /\ EditingShown
  /\ hn.pc \in {"idle", "done"}
  /\ hn' = IF Trim(editingNoteContent) = EmptyString
            THEN [IdleNoteUpdate EXCEPT !.pc = "done", !.noteId = editingNoteId,
                                        !.result = "noop"]
            ELSE [IdleNoteUpdate EXCEPT !.pc = "updateLeadNote",
                                        !.noteId = editingNoteId,
                                        !.content = Trim(editingNoteContent)]
  /\ UNCHANGED <<lead_notes, leadNotes, editingNoteId, editingNoteContent,
                 confirmDialog, hx>>
  /\ UNCHANGED <<page, orderVars, logVars, leadVars, quoteVars, timeVars>>

\* updateLeadNote(noteId, content): the row of the note with its content
\* replaced.  It is given no user and the handler passes none.
UpdatedNote(noteId, content) == [lead_notes[noteId] EXCEPT !.content = content]

\* const result = await updateLeadNote(noteId, editingNoteContent.trim());
\* error or rejection: showError; data: setLeadNotes(map), setEditingNoteId(null),
\* setEditingNoteContent('')
HN_UpdateLeadNote ==
  /\ hn.pc = "updateLeadNote"
  /\ \E ok \in BOOLEAN :
       IF ok /\ hn.noteId \in DOMAIN lead_notes
       THEN /\ lead_notes' = [lead_notes EXCEPT ![hn.noteId] =
                                 UpdatedNote(hn.noteId, hn.content)]
            /\ leadNotes' = [n \in DOMAIN leadNotes |->
                               IF n = hn.noteId
                               THEN UpdatedNote(hn.noteId, hn.content)
                               ELSE leadNotes[n]]
            /\ editingNoteId' = NULL
            /\ editingNoteContent' = EmptyString
            /\ hn' = [hn EXCEPT !.pc = "done", !.result = "ok"]
       ELSE /\ hn' = [hn EXCEPT !.pc = "done", !.result = "error"]
            /\ UNCHANGED <<lead_notes, leadNotes, editingNoteId,
                           editingNoteContent>>
  /\ UNCHANGED <<confirmDialog, hx>>
  /\ UNCHANGED <<page, orderVars, logVars, leadVars, quoteVars, timeVars>>

\* The delete button of a shown note: handleDeleteNote(note.id) opens the
\* dialog with onConfirm: () => confirmDeleteNote(noteId)
HandleDeleteNote(noteId) ==
  /\ page = "leads"
  /\ noteId \in DOMAIN leadNotes
  /\ OwnNote(leadNotes[noteId])
  /\ confirmDialog' = noteId
  /\ UNCHANGED <<lead_notes, leadNotes, editingNoteId, editingNoteContent,
                 hn, hx>>
  /\ UNCHANGED <<page, orderVars, logVars, leadVars, quoteVars, timeVars>>

\* confirmDeleteNote(noteId), up to its await:
\* setConfirmDialog(prev => ({ ...prev, isOpen: false }))
ConfirmDeleteNote ==
  /\ page = "leads"
  /\ confirmDialog # NULL
  /\ hx.pc \in {"idle", "done"}
  /\ hx' = [IdleNoteDelete EXCEPT !.pc = "deleteLeadNote",
                                  !.noteId = confirmDialog]
  /\ confirmDialog' = NULL
  /\ UNCHANGED <<lead_notes, leadNotes, editingNoteId, editingNoteContent, hn>>
  /\ UNCHANGED <<page, orderVars, logVars, leadVars, quoteVars, timeVars>>

\* deleteLeadNote(noteId): the table without the note.
WithoutNote(table, noteId) == [n \in DOMAIN table \ {noteId} |-> table[n]]

\* const result = await deleteLeadNote(noteId); error or rejection:
\* showError; else setLeadNotes(prev => prev.filter(note => note.id !== noteId))
HX_DeleteLeadNote ==
  /\ hx.pc = "deleteLeadNote"
  /\ \E ok \in BOOLEAN :
       IF ok
       THEN /\ lead_notes' = WithoutNote(lead_notes, hx.noteId)
            /\ leadNotes' = WithoutNote(leadNotes, hx.noteId)
            /\ hx' = [hx EXCEPT !.pc = "done", !.result = "ok"]
       ELSE /\ hx' = [hx EXCEPT !.pc = "done", !.result = "error"]
            /\ UNCHANGED <<lead_notes, leadNotes>>
  /\ UNCHANGED <<editingNoteId, editingNoteContent, confirmDialog, hn>>
  /\ UNCHANGED <<page, orderVars, logVars, leadVars, quoteVars, timeVars>>

\* The modal of a lead is open with the lead's notes loaded (loadLeadDetails).
NoteInit ==
  /\ lead_notes \in [NoteIds -> {row \in NoteRows : row.content = "a"}]
  /\ leadNotes = lead_notes
  /\ editingNoteId = NULL
  /\ editingNoteContent = EmptyString
  /\ confirmDialog = NULL
  /\ hn = IdleNoteUpdate
  /\ hx = IdleNoteDelete

FirstNotes == [n \in NoteIds |-> [user_id |-> "u1", content |-> "a"]]

\* The tables of a page that is not mounted are not touched: they start (and
\* stay) in one state of the page's own initial states.
FirstOrders == [o \in OrderIds |->
                  [status |-> "oppen_order", assigned_to_user_id |-> NULL,
                   assigned_to_team_id |-> NULL]]
FirstLeads == [l \in LeadIds |-> [status |-> "new", assigned_to_user_id |-> NULL]]

Init ==
  /\ page \in Pages
  /\ OrderInit /\ LogInit /\ LeadInit /\ NoteInit /\ TimeInit
  /\ lead_notes = FirstNotes
  /\ page # "orders" => orders = FirstOrders
  /\ page # "leads" => leads_db = FirstLeads /\ user = NULL
  /\ page # "schedule" => time_logs = <<>>

Next ==
  \/ \E p \in Callers, id \in OrderIds \cup {MissingOrderId},
        updates \in UpdatesSet : UO_Call(p, id, updates)
  \/ \E p \in Callers : UO_Read(p)
  \/ \E p \in Callers : UO_Update(p)
  \/ \E p \in Callers : UO_StatusNotify(p)
  \/ \E p \in Callers : UO_StatusActivity(p)
  \/ \E p \in Callers : UO_UserNotify(p)
  \/ \E p \in Callers : UO_UserActivity(p)
  \/ \E p \in Callers : UO_TeamNotify(p)
  \/ \E p \in Callers : UO_TeamActivity(p)
  \/ \E id \in LeadIds : HandleDragStart(id)
  \/ \E id \in LeadIds : HandleLeadClick(id)
  \/ \E s \in LeadStatuses : HandleDrop(s)
  \/ HD_UpdateLead
  \/ HD_LogStatus
  \/ \E v \in Users \cup {EmptyString} : HandleAssignmentChange(v)
  \/ HA_UpdateLead
  \/ HA_LogAssign
  \/ HandleConvertToQuote
  \/ HQ_LogConverted
  \/ HQ_UpdateLead
  \/ \E v \in Users \cup {EmptyString}, newCustomer \in BOOLEAN :
        HandleAddLead(v, newCustomer)
  \/ AL_CreateCustomer
  \/ AL_CreateLead
  \/ LoadScheduleData
  \/ \E p \in Starts, o \in ScheduleOrderIds : HandleStartTracking(p, o)
  \/ \E p \in Starts : ST_GetActive(p)
  \/ \E p \in Starts : ST_Insert(p)
  \/ \E q \in Stops : HandleStopTracking(q)
  \/ \E q \in Stops : SP_Stop(q)

Spec == Init /\ [][Next]_vars

\* Callers of updateOrder that set the status of the same order, their reads
\* and writes interleaved in every way.
InitRace ==
  /\ page = "orders"
  /\ OrderInit /\ LogInit /\ LeadInit /\ NoteInit /\ TimeInit
  /\ lead_notes = FirstNotes
  /\ \A o \in OrderIds : orders[o].assigned_to_team_id = NULL
  /\ leads_db = FirstLeads /\ user = NULL
  /\ time_logs = <<>>

NextRace ==
  \/ \E p \in Callers, id \in OrderIds, status \in OrderStatuses :
        UO_CallStatus(p, id, status)
  \/ \E p \in Callers : UO_Read(p)
  \/ \E p \in Callers : UO_Update(p)
  \/ \E p \in Callers : UO_StatusNotify(p)
  \/ \E p \in Callers : UO_StatusActivity(p)

SpecRace == InitRace /\ [][NextRace]_vars

\* The operations of the order module that write or read the activity log:
\* createOrder, updateOrder, createOrderNote, getOrderActivities.
\* updateOrder is called with one key of updates set.
OneKeyUpdates ==
  {u \in UpdatesSet :
     Cardinality({f \in DOMAIN u : u[f] # UNDEF}) = 1}

UO_CallOneKey(p, id, updates) == UO_Invoke(p, id, updates, LogCalls)

InitLog ==
  /\ page = "orders"
  /\ OrderInit /\ LogInit /\ LeadInit /\ NoteInit /\ TimeInit
  /\ lead_notes = FirstNotes
  /\ \A o \in OrderIds : /\ orders[o].status = "oppen_order"
                         /\ orders[o].assigned_to_team_id = NULL
  /\ leads_db = FirstLeads /\ user = NULL
  /\ time_logs = <<>>

NextLog ==
  \/ \E p \in Callers, id \in OrderIds, updates \in OneKeyUpdates :
        UO_CallOneKey(p, id, updates)
  \/ \E p \in Callers : UO_Read(p)
  \/ \E p \in Callers : UO_Update(p)
  \/ \E p \in Callers : UO_StatusNotify(p)
  \/ \E p \in Callers : UO_StatusActivity(p)
  \/ \E p \in Callers : UO_UserNotify(p)
  \/ \E p \in Callers : UO_UserActivity(p)
  \/ \E p \in Callers : UO_TeamNotify(p)
  \/ \E p \in Callers : UO_TeamActivity(p)
  \/ \E order \in NewOrders : CreateOrder(order)
  \/ CO_Insert
  \/ CO_LogCreated
  \/ \E orderId \in OrderIds, userId \in Users : CreateOrderNote(orderId, userId)
  \/ CN_Insert
  \/ CN_LogNote
  \/ \E orderId \in OrderIds \cup {NewOrderId} : GetOrderActivities(orderId)

SpecLog == InitLog /\ [][NextLog]_vars

\* The notes tab of the lead modal on its own: every click on a note's
\* buttons, the edit form and the delete dialog.
InitNotes ==
  /\ page = "leads"
  /\ OrderInit /\ LogInit /\ LeadInit /\ NoteInit /\ TimeInit
  /\ orders = FirstOrders
  /\ leads_db = FirstLeads
  /\ time_logs = <<>>

NextNotes ==
  \/ \E noteId \in NoteIds : ClickEditNote(noteId)
  \/ \E content \in Contents : TypeNoteContent(content)
  \/ CancelEditNote
  \/ HandleUpdateNote
  \/ HN_UpdateLeadNote
  \/ \E noteId \in NoteIds : HandleDeleteNote(noteId)
  \/ ConfirmDeleteNote
  \/ HX_DeleteLeadNote

SpecNotes == InitNotes /\ [][NextNotes]_vars


\* ------------------------------------------------------------- the claims
\* The activities / notifications that invocation n of updateOrder added.
ActivitiesOf(n) ==
  {i \in 1..Len(order_activities) : order_activities[i].call = n}
ActivitiesOfType(n, activityType) ==
  {i \in ActivitiesOf(n) : order_activities[i].activity_type = activityType}
NotificationsOf(n) ==
  {i \in 1..Len(notifications) : notifications[i].call = n}
NotificationsOfKind(n, kind) ==
  {i \in NotificationsOf(n) : notifications[i].kind = kind}
LeadActivitiesOf(n) ==
  {i \in 1..Len(lead_activities) : lead_activities[i].call = n}

\* The shapes of updates: a transition sets the status and no assignee, an
\* assignment sets an assignee and no status.
IsTransition(updates) ==
  /\ updates.status # UNDEF
  /\ updates.assigned_to_user_id = UNDEF
  /\ updates.assigned_to_team_id = UNDEF
IsUserAssignment(updates) ==
  /\ updates.status = UNDEF
  /\ updates.assigned_to_user_id # UNDEF
  /\ updates.assigned_to_team_id = UNDEF
IsTeamAssignment(updates) ==
  /\ updates.status = UNDEF
  /\ updates.assigned_to_user_id = UNDEF
  /\ updates.assigned_to_team_id # UNDEF

Returned(c) == c.pc = "done"
HasRead(c) == c.pc \notin {"idle", "read"}
HasWritten(c) == c.before # NoRow

\* C1: for every worker, in every reachable state (two starts of the same
\* worker in flight included), at most one TimeSession of the worker has a
\* null end timestamp, and of the starts that found no session active only
\* one succeeds.
C1_OneActiveSessionPerWorker ==
  /\ Cardinality(ActiveLogs(Worker)) <= 1
  /\ \A p, q \in Starts :
       (p # q /\ st[p].result = "ok" /\ st[q].result = "ok")
          => time_logs[st[p].log].end_time # NoTime
             \/ time_logs[st[q].log].end_time # NoTime

C3_TransitionLogsOneActivity ==
  \A p \in Callers :
     LET c == uo[p] IN
     (Returned(c) /\ c.result = "ok" /\ IsTransition(c.updates)
        /\ HasWritten(c) /\ c.before.status # c.updates.status) =>
        /\ orders[c.id].status = c.updates.status
        /\ Cardinality(ActivitiesOf(c.n)) = 1
        /\ \A i \in ActivitiesOf(c.n) :
             /\ order_activities[i].activity_type = "status_changed"
             /\ order_activities[i].old_value = c.before.status
             /\ order_activities[i].new_value = c.updates.status

\* C4: in every status-changing transition the store write completes, then
\* the status_changed Activity is appended, then the status-update
\* Notification is enqueued: no Notification of a transition is in the sink
\* while that transition's Activity is not in the log.
C4_ActivityBeforeNotification ==
  \A p \in Callers :
     LET c == uo[p] IN
     /\ ActivitiesOfType(c.n, "status_changed") # {} => HasWritten(c)
     /\ NotificationsOfKind(c.n, "status_update") # {} =>
          ActivitiesOfType(c.n, "status_changed") # {}

\* C5: if the store write of a transition or assignment fails, the operation
\* returns (reports) an error and neither an Activity is appended nor a
\* Notification enqueued for it.
C5_FailedWriteHasNoSideEffects ==
  /\ \A p \in Callers :
       LET c == uo[p] IN
       (c.pc \notin {"idle", "read", "update"} /\ ~HasWritten(c)) =>
          /\ Returned(c) /\ c.result = "error" /\ c.data = NoRow
          /\ ActivitiesOf(c.n) = {}
          /\ NotificationsOf(c.n) = {}
  /\ (hd.pc \in {"logStatus", "done"} /\ hd.result # "noop" /\ ~hd.wrote) =>
       /\ hd.pc = "done" /\ hd.result = "error"
       /\ LeadActivitiesOf(hd.n) = {}
  /\ (ha.pc \in {"logAssign", "done"} /\ ~ha.wrote) =>
       /\ ha.pc = "done" /\ ha.result = "error"
       /\ LeadActivitiesOf(ha.n) = {}

C5_Witness ==
  \E p \in Callers :
     /\ Returned(uo[p]) /\ ~HasWritten(uo[p])
     /\ uo[p].id \in OrderIds
     /\ uo[p].currentOrder # NoRow
     /\ StatusChanged(uo[p].updates, uo[p].currentOrder)
     /\ UserChanged(uo[p].updates, uo[p].currentOrder)

\* C6: if enqueueing the status-update Notification fails during a
\* transition whose store write succeeded, the transition goes on, returns
\* the updated work item and no error, and the step of the enqueue, failed or
\* not, never makes updateOrder return an error and leaves the stored order
\* (the new status) as it is.
C6_StatusNotifyFailureSwallowed ==
  /\ [](\A p \in Callers :
          LET c == uo[p] IN
          (IsTransition(c.updates) /\ "statusNotify" \in c.failed) =>
             /\ HasWritten(c)
             /\ Returned(c) =>
                  /\ c.result = "ok"
                  /\ c.data = Patch(c.before, c.updates)
                  /\ c.data.status = c.updates.status)
  /\ [][\A p \in Callers :
          uo[p].pc = "statusNotify" /\ uo'[p].pc # "statusNotify"
             => /\ orders' = orders
                /\ orders[uo[p].id].status = uo[p].updates.status
                /\ uo'[p].result # "error"]_vars

C6_Witness ==
  \E p \in Callers :
     /\ Returned(uo[p]) /\ IsTransition(uo[p].updates)
     /\ "statusNotify" \in uo[p].failed
     /\ orders[uo[p].id].status = uo[p].updates.status
     /\ uo[p].before.status # uo[p].updates.status

\* C7: if enqueueing the assignment Notification fails (createNotification
\* rejects) during a user or team assignment whose store write succeeded,
\* the operation still returns the updated work item and no error, and the
\* assignment Activity (assigned / team_assigned) is still recorded.
C7_AssignNotifyFailureSwallowed ==
  \A p \in Callers :
     LET c == uo[p] IN
     /\ (Returned(c) /\ IsUserAssignment(c.updates) /\ "userNotify" \in c.failed)
          => /\ c.result = "ok" /\ c.data = Patch(c.before, c.updates)
             /\ ("userActivity" \in c.failed
                   \/ ActivitiesOfType(c.n, "assigned") # {})
     /\ (Returned(c) /\ IsTeamAssignment(c.updates) /\ "teamNotify" \in c.failed)
          => /\ c.result = "ok" /\ c.data = Patch(c.before, c.updates)
             /\ ("teamActivity" \in c.failed
                   \/ ActivitiesOfType(c.n, "team_assigned") # {})

C9_AssignmentLogsAndNotifiesOnce ==
  /\ \A p \in Callers :
       LET c == uo[p] IN
       (Returned(c) /\ IsUserAssignment(c.updates) /\ HasWritten(c)
          /\ c.updates.assigned_to_user_id # c.before.assigned_to_user_id) =>
          /\ Cardinality(ActivitiesOf(c.n)) = 1
          /\ \A i \in ActivitiesOf(c.n) :
               order_activities[i].activity_type = "assigned"
          /\ IF c.updates.assigned_to_user_id = NULL
             THEN c.result = "ok" /\ NotificationsOf(c.n) = {}
             ELSE /\ Cardinality(NotificationsOf(c.n)) = 1
                  /\ \A i \in NotificationsOf(c.n) :
                       notifications[i].user_id = c.updates.assigned_to_user_id
  /\ (ha.pc = "done" /\ ha.wrote
        /\ ha.before # OrNull(ha.newAssignedUserId)) =>
       /\ ha.result = "ok"
       /\ Cardinality(LeadActivitiesOf(ha.n)) = 1

\* C10: on every status-changing transition of a work item that has an
\* assigned user exactly one status-update Notification is enqueued,
\* addressed to that user; when the item has no assigned user the transition
\* enqueues no Notification.
C10_TransitionNotifiesAssignee ==
  \A p \in Callers :
     LET c == uo[p] IN
     (Returned(c) /\ IsTransition(c.updates) /\ HasWritten(c)
        /\ c.before.status # c.updates.status) =>
        IF c.before.assigned_to_user_id = NULL
        THEN NotificationsOf(c.n) = {}
        ELSE /\ Cardinality(NotificationsOf(c.n)) = 1
             /\ \A i \in NotificationsOf(c.n) :
                  /\ notifications[i].kind = "status_update"
                  /\ notifications[i].user_id = c.before.assigned_to_user_id

\* C11: the team-assignment Notification of every team assignment is
\* delivered to every member of the team except the user who performed the
\* assignment: the acting user is not a recipient, and no other member of
\* the team is left out.
C11_TeamNotificationExcludesActor ==
  \A i \in 1..Len(notifications) :
     notifications[i].kind = "team_assignment" =>
        /\ Actor \notin Recipients(notifications[i])
        /\ TeamMembers(notifications[i].team_id) \ Recipients(notifications[i])
              \subseteq {Actor}

\* C12: no Notification addressed to a user (a status-update or an
\* order-assignment Notification) in the sink has a null recipient, and none
\* is addressed to the user who performed the operation that triggered it.
C12_NoNullOrSelfNotification ==
  \A i \in 1..Len(notifications) :
     notifications[i].kind \in {"status_update", "order_assignment"} =>
        /\ notifications[i].user_id \notin {NULL, UNDEF}
        /\ notifications[i].user_id # Actor

\* C13: when the worker has an active session (on o1, not stopped) at the
\* moment a start for another work item asks the store for the active
\* session, that start fails -- with SessionAlreadyActive when the store
\* answers -- without creating a session, the sessions in the store stay as
\* they are, and the worker's active session is still the same one.
C13_StartWhileActiveFails ==
  [][\A p \in Starts :
       (st[p].pc = "getActive" /\ st'[p].pc # "getActive"
          /\ ActiveLogs(Worker) # {}) =>
          /\ st'[p].pc = "done"
          /\ st'[p].result \in {"SessionAlreadyActive", "StoreFailure"}
          /\ st'[p].log = 0
          /\ time_logs' = time_logs
          /\ ActiveLogs(Worker)' = ActiveLogs(Worker)]_vars

C13_Witness ==
  \E p \in Starts :
     /\ st[p].result = "SessionAlreadyActive"
     /\ st[p].orderId = "o2"
     /\ \E i \in ActiveLogs(Worker) : time_logs[i].order_id = "o1"

C15_EveryStatusWriteIsLogged ==
  \A p \in Callers :
     LET c == uo[p] IN
     (Returned(c) /\ c.result = "ok" /\ IsTransition(c.updates)
        /\ c.currentOrder # NoRow /\ c.failed = {}
        /\ c.before.status # c.updates.status) =>
        \E i \in ActivitiesOfType(c.n, "status_changed") :
           order_activities[i].new_value = c.updates.status

\* C16: the activity log is append-only: whatever step createOrder,
\* updateOrder, createOrderNote or getOrderActivities takes, every Activity
\* that was in the log is still there, at the same place and with every field
\* as it was.
C16_ActivityLogAppendOnly ==
  [][/\ Len(order_activities') >= Len(order_activities)
     /\ SubSeq(order_activities', 1, Len(order_activities)) = order_activities]_vars

C16_Witness ==
  /\ Len(order_activities) >= 2
  /\ co.result = "ok" /\ cn.result = "ok"
  /\ order_activities[1].activity_type = "note_added"
  /\ order_activities[2].activity_type = "created"

\* C17: every stored change of a lead's status, made by handleDrop or by
\* handleConvertToQuote, with or without a signed-in user, has its
\* status-change Activity: once the handler has finished, the log holds a
\* 'status_change' row written by that invocation.
StatusChangeLogged(n) ==
  \E i \in 1..Len(lead_activities) :
     /\ lead_activities[i].call = n
     /\ lead_activities[i].activity_type = "status_change"

C17_StatusChangeHasActivity ==
  /\ (hd.pc = "done" /\ hd.wrote /\ hd.before # hd.newStatus)
       => StatusChangeLogged(hd.n)
  /\ (hq.pc = "done" /\ hq.wrote /\ hq.before # "qualified")
       => StatusChangeLogged(hq.n)

\* C18: a note is edited or deleted only by its author: the edit form is
\* only ever open on a note the signed-in user wrote, the delete dialog only
\* ever names such a note, and every step that changes or removes a row of
\* lead_notes does it to a row whose user_id is the signed-in user.
NoteChanged(n) ==
  n \notin DOMAIN lead_notes' \/ lead_notes'[n] # lead_notes[n]

AuthoredByUser(note) == user \in Users /\ note.user_id = user

ActivitySteps == {"statusActivity", "userActivity", "teamActivity"}

C19_FailedAppendIsReported ==
  \A p \in Callers :
     (/\ Returned(uo[p])
      /\ HasWritten(uo[p])
      /\ uo[p].failed \cap ActivitySteps # {})
       => uo[p].result = "error"

\* C20: updateOrder on an id no row of orders has returns an error to its
\* caller, and at no point of the call is there an Activity or a Notification
\* of it, or a row of orders with that id.
C20_MissingOrderIsErrorWithoutEffects ==
  \A p \in Callers :
     uo[p].id = MissingOrderId
       => /\ ActivitiesOf(uo[p].n) = {}
          /\ NotificationsOf(uo[p].n) = {}
          /\ MissingOrderId \notin DOMAIN orders
          /\ Returned(uo[p]) => uo[p].result = "error"

C20_Witness ==
  \E p \in Callers :
     /\ uo[p].id = MissingOrderId
     /\ Returned(uo[p])
     /\ uo[p].result = "error"
     /\ uo[p].updates.status = "bokad_bekraftad"
     /\ uo[p].updates.assigned_to_user_id = "u2"
     /\ uo[p].updates.assigned_to_team_id = "t1"
     /\ uo[p].failed = {}

InitialOrderStatus == "oppen_order"
InitialLeadStatus == "new"

C22_IntakeStoresInitialStatus ==
  /\ (co.pc \in {"logCreated", "done"} /\ co.data # NoRow)
       => orders[NewOrderId].status = InitialOrderStatus
  /\ (al.pc = "done" /\ al.result = "ok")
       => leads_db[NewLeadId].status = InitialLeadStatus

C24_StatusGraphFullyConnected ==
  /\ \A t \in LeadStatuses :
        (/\ page = "leads"
         /\ hd.pc \in {"idle", "done"}
         /\ nleadops < MaxLeadOps
         /\ draggedLead # NoLead
         /\ draggedLead.status # t)
          => ENABLED (HandleDrop(t) /\ hd'.pc = "updateLead")
  /\ hd.pc = "updateLead"
       => ENABLED (/\ HD_UpdateLead
                   /\ leads_db'[hd.draggedLead.id].status = hd.newStatus
                   /\ leads'[hd.draggedLead.id].status = hd.newStatus)
  /\ \A p \in Callers :
        (/\ uo[p].pc = "update"
         /\ uo[p].id \in DOMAIN orders
         /\ uo[p].updates.status # UNDEF)
          => ENABLED (/\ UO_Update(p)
                      /\ orders'[uo[p].id].status = uo[p].updates.status)

C24_Witness ==
  /\ hd.pc = "done" /\ hd.wrote
  /\ hd.before = "lost"
  /\ hd.draggedLead.status = "lost"
  /\ hd.newStatus = "new"
  /\ leads_db[hd.draggedLead.id].status = "new"
  /\ leads[hd.draggedLead.id].status = "new"

\* C25: every Activity in the log of a lead or of an order has a kind of the
\* enum created, status_changed, assigned, team_assigned, note_added,
\* converted, custom.
ActivityKinds == {"created", "status_changed", "assigned", "team_assigned",
                  "note_added", "converted", "custom"}

C25_ActivityKindInEnum ==
  /\ \A i \in 1..Len(order_activities) :
        order_activities[i].activity_type \in ActivityKinds
  /\ \A i \in 1..Len(lead_activities) :
        lead_activities[i].activity_type \in ActivityKinds

\* C26: the Activity of a status change is described as 'Status andrad fran
\* <label(old)> till <label(new)>', old being the status the item had in the
\* store just before the write and new the requested status; for an order
\* the row carries that old and new status as its old and new value.
StatusChangeDescription(old, new) ==
  <<"Status andrad fran", statusLabels[old], "till", statusLabels[new]>>

C26_DescriptionNamesStoredOldStatus ==
  /\ \A i \in 1..Len(lead_activities) :
        (/\ lead_activities[i].activity_type = "status_change"
         /\ lead_activities[i].call = hd.n
         /\ hd.wrote)
          => lead_activities[i].description =
               StatusChangeDescription(hd.before, hd.newStatus)
  /\ \A p \in Callers : \A i \in ActivitiesOfType(uo[p].n, "status_changed") :
        HasWritten(uo[p])
          => /\ order_activities[i].old_value = uo[p].before.status
             /\ order_activities[i].new_value = uo[p].updates.status

\* C27: an updateOrder call that has written appends one Activity for each
\* of status, assigned user and assigned team that its write changed, and
\* none for a field it left as it was, in the order status_changed, assigned,
\* team_assigned: three Activities when it changed all three.
KindsOf(n) ==
  LET OfCall(row) == row.call = n
      rows == SelectSeq(order_activities, OfCall)
  IN [i \in 1..Len(rows) |-> rows[i].activity_type]

ExpectedKinds(c) ==
  (IF StatusChanged(c.updates, c.before) THEN <<"status_changed">> ELSE <<>>)
  \o (IF UserChanged(c.updates, c.before) THEN <<"assigned">> ELSE <<>>)
  \o (IF TeamChanged(c.updates, c.before) THEN <<"team_assigned">> ELSE <<>>)

C27_OneActivityPerChangedField ==
  \A p \in Callers :
     (Returned(uo[p]) /\ HasWritten(uo[p]))
       => KindsOf(uo[p].n) = ExpectedKinds(uo[p])

\* C28: in handleDrop the board shows the new status only once the store has
\* taken it: a step of the handler that changes leads is the step in which
\* updateLead succeeded.  When updateLead reports an error or throws, leads
\* and both tables stay as they are and the handler writes no status-change
\* Activity.  On every path -- no-op, error, exception, success -- the step
\* that completes the handler leaves draggedLead null.
C28_DropShowsOnlyStoredStatus ==
  /\ [](hd.result = "error" => ~hd.wrote /\ ~StatusChangeLogged(hd.n))
  /\ [][hd' # hd =>
          /\ hd'.result # "none" => draggedLead' = NoLead
          /\ hd'.result = "error" =>
                /\ leads' = leads
                /\ leads_db' = leads_db
                /\ lead_activities' = lead_activities
          /\ leads' # leads =>
                /\ hd'.wrote
                /\ leads_db'[hd.draggedLead.id].status = hd.newStatus
                /\ leads' = [leads EXCEPT ![hd.draggedLead.id].status =
                                            hd.newStatus]]_vars

C28_Witness ==
  /\ hd.pc = "done" /\ hd.result = "error"
  /\ hd.draggedLead.status = "new" /\ hd.newStatus = "won"
  /\ leads[hd.draggedLead.id].status = "new"
  /\ leads_db[hd.draggedLead.id].status = "new"
  /\ draggedLead = NoLead
  /\ lead_activities = <<>>

\* C29: when handleConvertToQuote completes, the status the board shows for
\* the lead, in leads and in selectedLead, is the status the store holds for
\* it -- also when the updateLead of the conversion reported an error.
C29_ConvertShowsStoredStatus ==
  [][(hq' # hq /\ hq'.pc = "done" /\ hq'.result # "noop") =>
       /\ leads'[hq.selectedLead.id].status =
             leads_db'[hq.selectedLead.id].status
       /\ selectedLead' # NoLead =>
             selectedLead'.status = leads_db'[selectedLead'.id].status]_vars

\* C30: when createOrder returns the inserted order, the log of the new
\* order holds exactly one Activity of that call, of kind created and with a
\* null acting user; when its insert failed the log holds none.  Likewise
\* createOrderNote: exactly one note_added Activity attributed to the note's
\* author when it returns the note, none when its insert failed.
C30_IntakeLogsExactlyOneActivity ==
  /\ co.pc = "done" =>
        IF co.result = "ok"
        THEN /\ Cardinality(ActivitiesOf(co.n)) = 1
             /\ \A i \in ActivitiesOf(co.n) :
                  /\ order_activities[i].activity_type = "created"
                  /\ order_activities[i].user_id = NULL
                  /\ order_activities[i].order_id = NewOrderId
        ELSE ActivitiesOf(co.n) = {}
  /\ cn.pc = "done" =>
        IF cn.result = "ok"
        THEN /\ Cardinality(ActivitiesOf(cn.n)) = 1
             /\ \A i \in ActivitiesOf(cn.n) :
                  /\ order_activities[i].activity_type = "note_added"
                  /\ order_activities[i].user_id = cn.user_id
                  /\ order_activities[i].order_id = cn.order_id
        ELSE ActivitiesOf(cn.n) = {}

=============================================================================
